---- MODULE Spec2Model ----
(***************************************************************************)
(* A model of gesist: the framing layer (padder.rs), the diffusion        *)
(* transform (mixer.rs) and the encode / decode entry points (lib.rs).    *)
(* Bytes are naturals in 0..255; usize values are naturals; a Box<[u8]>   *)
(* is a sequence of bytes (index i of the source is element i+1 here).    *)
(***************************************************************************)
EXTENDS Integers, Sequences, FiniteSets, TLC

(***************************************************************************)
(* Bounds of the model.                                                    *)
(***************************************************************************)
\* longest caller-supplied byte sequence drawn from all of Bytes
MaxLen == 4
\* longest caller-supplied byte sequence drawn from LongBytes
MaxLongLen == 7
\* largest payload size handed to Padder::new_zeroed / padded_size
MaxSize == 130
\* longest payload of a Padder on which a PadderMutGuard is taken
MaxMutLen == 2
\* longest raw frame taken out of a Padder and validated again, with one bit
\* flipped or none
MaxFlipLen == 6
\* most calls of Mixer::mix on one Mixer
MaxMixes == 2

(***************************************************************************)
(* u8 arithmetic.                                                          *)
(***************************************************************************)
RECURSIVE Pow2(_)
Pow2(k) == IF k = 0 THEN 1 ELSE 2 * Pow2(k - 1)

RECURSIVE BitXor(_, _, _)
\* xor of the low `bits` bits of a and b
BitXor(a, b, bits) ==
    IF bits = 0 THEN 0
    ELSE (((a % 2) + (b % 2)) % 2) + 2 * BitXor(a \div 2, b \div 2, bits - 1)

RECURSIVE BitOr(_, _, _)
BitOr(a, b, bits) ==
    IF bits = 0 THEN 0
    ELSE (IF (a % 2) + (b % 2) > 0 THEN 1 ELSE 0)
         + 2 * BitOr(a \div 2, b \div 2, bits - 1)

RECURSIVE BitAnd(_, _, _)
BitAnd(a, b, bits) ==
    IF bits = 0 THEN 0
    ELSE ((a % 2) * (b % 2)) + 2 * BitAnd(a \div 2, b \div 2, bits - 1)

Xor8(a, b) == BitXor(a, b, 8)
Or8(a, b) == BitOr(a, b, 8)
And8(a, b) == BitAnd(a, b, 8)
\* u8 << s and u8 >> s for 0 <= s < 8 (bits shifted out are lost)
Shl8(a, s) == (a * Pow2(s)) % 256
Shr8(a, s) == a \div Pow2(s)
WrappingAdd(a, b) == (a + b) % 256
WrappingSub(a, b) == (a - b + 256) % 256
\* `i as u8`
AsU8(i) == i % 256

RECURSIVE ReverseBitsN(_, _)
ReverseBitsN(a, bits) ==
    IF bits = 0 THEN 0
    ELSE (a % 2) * Pow2(bits - 1) + ReverseBitsN(a \div 2, bits - 1)

\* u8::reverse_bits
ReverseBits(a) == ReverseBitsN(a, 8)

(***************************************************************************)
(* Sequences as slices.                                                    *)
(***************************************************************************)
\* the element of a one-element set: Only({F(x) : x \in {e}}) is F(e) with e
\* evaluated once, before F
Only(S) == CHOOSE v \in S : TRUE
\* the Rust range lo..hi as a sequence of indices (empty when hi <= lo)
Range(lo, hi) == [k \in 1..(IF hi > lo THEN hi - lo ELSE 0) |-> lo + k - 1]
\* .rev()
Rev(s) == [k \in 1..Len(s) |-> s[Len(s) + 1 - k]]
\* &content[lo..hi]
Slice(content, lo, hi) == [k \in 1..(hi - lo) |-> content[lo + k]]
\* vec![0; n]
Zeroes(n) == [k \in 1..n |-> 0]

(***************************************************************************)
(* CRC-8/SAE-J1850 (Padder::CRC): poly 0x1D, init 0xFF, xorout 0xFF,       *)
(* no reflection.                                                          *)
(***************************************************************************)
CrcPoly == 29
CrcInit == 255
CrcXorOut == 255

RECURSIVE CrcShift(_, _)
\* `rounds` shift-and-reduce steps of the CRC register
CrcShift(crc, rounds) ==
    IF rounds = 0 THEN crc
    ELSE CrcShift(IF crc >= 128 THEN Xor8(Shl8(crc, 1), CrcPoly) ELSE Shl8(crc, 1),
                  rounds - 1)

\* the table of Crc<u8>: the register after one byte, by register xor byte
CrcTable == [b \in 0..255 |-> CrcShift(b, 8)]

RECURSIVE CrcUpdate(_, _, _, _)
\* the register after bytes[lo + 1 .. hi], taken in order: the first half of
\* the bytes is consumed before the second half starts from its register
CrcUpdate(crc, bytes, lo, hi) ==
    IF hi = lo THEN crc
    ELSE IF hi = lo + 1 THEN CrcTable[Xor8(crc, bytes[hi])]
    ELSE Only({CrcUpdate(left, bytes, (lo + hi) \div 2, hi) :
                 left \in {CrcUpdate(crc, bytes, lo, (lo + hi) \div 2)}})

\* Padder::CRC.checksum(bytes)
CrcChecksum(bytes) == Xor8(CrcUpdate(CrcInit, bytes, 0, Len(bytes)), CrcXorOut)

(***************************************************************************)
(* leb128 and the layout arithmetic of padder.rs.                          *)
(***************************************************************************)
\* Padder::ALIGNMENT
ALIGNMENT == 3

RECURSIVE ILog2(_)
\* usize::ilog2 for input > 0
ILog2(input) == IF input < 2 THEN 0 ELSE 1 + ILog2(input \div 2)

\* leb128_size: checked_ilog2 is None exactly for input = 0
leb128_size(input) ==
    IF input = 0 THEN 0 ELSE (ILog2(input) \div 7) + 1

\* fault injected for C14: the remainder of the operand itself, not of what
\* is missing to the next multiple
RemEuclid_negated(a, m) == (((-a) % m) + m) % m

\* isize::rem_euclid with a positive modulus
RemEuclid(a, m) == ((a % m) + m) % m

\* fault injected for C8: a padded_size that does not round up to ALIGNMENT
padded_size_unrounded(input_size) == leb128_size(input_size) + input_size + 1

\* Padder::padded_size
padded_size(input_size) ==
    LET size_leb128 == leb128_size(input_size)
        size_without_checksum == size_leb128 + input_size + 1
        size_checksum == RemEuclid(-size_without_checksum, ALIGNMENT)
    IN  size_without_checksum + size_checksum

RECURSIVE Leb128Write(_)
\* leb128::write::unsigned: the bytes written for val (one byte for val = 0);
\* the returned count is the length of this sequence
Leb128Write(val) ==
    LET byte == val % 128
        rest == val \div 128
    IN  IF rest # 0 THEN <<byte + 128>> \o Leb128Write(rest) ELSE <<byte>>

\* what leb128::read::unsigned can accumulate exactly in this model: groups
\* above bit 28 are kept only as "the value is at least 2^28"
Leb128Cap == 268435456

RECURSIVE Leb128Read(_, _, _, _)
\* leb128::read::unsigned over a Cursor at position pos: err when the bytes run
\* out before a byte without the continuation bit. `groups` is the number of
\* 7-bit groups read so far (shift = 7 * groups, below 63 for the buffers here).
Leb128Read(content, pos, groups, acc) ==
    IF pos >= Len(content) THEN [ok |-> FALSE, value |-> 0, position |-> pos]
    ELSE LET byte == content[pos + 1]
             low == byte % 128
             val == IF groups < 4 THEN acc + low * Pow2(7 * groups)
                    ELSE IF low # 0 THEN Leb128Cap ELSE acc
             sat == IF val > Leb128Cap THEN Leb128Cap ELSE val
         IN  IF byte < 128
             THEN [ok |-> TRUE, value |-> sat, position |-> pos + 1]
             ELSE Leb128Read(content, pos + 1, groups + 1, sat)

(***************************************************************************)
(* The traversal rules of mixer.rs (mix_rule_inner! / mix_rule!).          *)
(***************************************************************************)
\* the $body of a neighbour rule: the new value of *this given the neighbour
RuleBody(op, this, other) ==
    CASE op = "wrapping_add" -> WrappingAdd(this, other)
      [] op = "wrapping_sub" -> WrappingSub(this, other)
      [] op = "xor" -> Xor8(this, other)

RECURSIVE mix_rule_inner(_, _, _, _)
\* for i in range { other = content[i + delta]; *this = body(this, other) },
\* each step reading the buffer as the steps before it left it
mix_rule_inner(content, range, delta, op) ==
    IF range = <<>> THEN content
    ELSE LET i == Head(range)
             other == content[i + delta + 1]
         IN  Only({mix_rule_inner(next, Tail(range), delta, op) :
                     next \in {[content EXCEPT
                                  ![i + 1] = RuleBody(op, content[i + 1], other)]}})

\* the guarded form: the whole rule is skipped unless content.len() > guard
mix_rule_guarded(guard, content, range, delta, op) ==
    IF Len(content) > guard THEN mix_rule_inner(content, range, delta, op)
    ELSE content

h2t(content, op) == mix_rule_inner(content, Range(1, Len(content)), -1, op)
h2tr(content, op) == mix_rule_inner(content, Rev(Range(1, Len(content))), -1, op)
\* t2h and t2hr compute content.len() - 1 in usize: see MixPanics for len = 0
t2h(content, op) == mix_rule_inner(content, Rev(Range(0, Len(content) - 1)), 1, op)
t2hr(content, op) == mix_rule_inner(content, Range(0, Len(content) - 1), 1, op)
u2d(content, width, op) ==
    mix_rule_guarded(width, content, Range(width, Len(content)), -width, op)
u2dr(content, width, op) ==
    mix_rule_guarded(width, content, Rev(Range(width, Len(content))), -width, op)
d2u(content, width, op) ==
    mix_rule_guarded(width, content, Rev(Range(0, Len(content) - width)), width, op)
d2ur(content, width, op) ==
    mix_rule_guarded(width, content, Range(0, Len(content) - width), width, op)

\* mix_rule!(byte) with body this.wrapping_add(i as u8) / wrapping_sub(i as u8)
byte_rule(content, op) ==
    [k \in 1..Len(content) |-> RuleBody(op, content[k], AsU8(k - 1))]

\* Mixer::block_be_rotl on the block <<b0, b1, b2>>
block_be_rotl(b, shift) ==
    LET remain == 8 - shift
        carry == Shr8(b[1], remain)
    IN  << Or8(Shl8(b[1], shift), Shr8(b[2], remain)),
           Or8(Shl8(b[2], shift), Shr8(b[3], remain)),
           Or8(Shl8(b[3], shift), carry) >>

\* Mixer::block_be_rotr
block_be_rotr(b, shift) ==
    LET remain == 8 - shift
        carry == And8(b[3], Pow2(shift) - 1)
    IN  << Or8(Shr8(b[1], shift), Shl8(carry, remain)),
           Or8(Shr8(b[2], shift), Shl8(b[1], remain)),
           Or8(Shr8(b[3], shift), Shl8(b[2], remain)) >>

\* Mixer::middle_shift
middle_shift(b) == << b[3], ReverseBits(b[2]), b[1] >>

\* fault injected for C10: a rotation amount without the + 1
BlockShift_even(i) == ((i \div 3) * 2) % 8

\* the rotation of the block starting at index i: (i / 3 * 2 + 1) & 0x7
BlockShift(i) == (((i \div 3) * 2) + 1) % 8

\* the $body of a block rule applied to one 3-byte block starting at index i
BlockBody(op, b, i) ==
    CASE op = "rotl" -> block_be_rotl(b, BlockShift(i))
      [] op = "rotr" -> block_be_rotr(b, BlockShift(i))
      [] op = "middle_shift" -> middle_shift(b)

\* mix_rule!(block, 3): the blocks are disjoint, so each byte of the result
\* depends on its own block of the input only
block_rule(content, op) ==
    [k \in 1..Len(content) |->
        LET i == ((k - 1) \div 3) * 3
        IN  BlockBody(op, Slice(content, i, i + 3), i)[k - i]]

\* Mixer::mix panics instead of returning: on the empty buffer t2h evaluates
\* content.len() - 1 = 0 - 1 in usize (overflow panic with overflow checks; a
\* wrapped range whose first index is out of bounds without them), and on a
\* buffer that is not a multiple of 3 long the last block slice is out of
\* bounds
MixPanics(content) == Len(content) = 0 \/ Len(content) % 3 # 0

\* Mixer::mix, the thirteen rules in order, for a buffer on which it returns
mix(content) ==
    LET s1 == h2t(content, "wrapping_add")
        s2 == u2d(s1, 3, "xor")
        s3 == byte_rule(s2, "wrapping_add")
        s4 == block_rule(s3, "rotl")
        s5 == d2u(s4, 6, "wrapping_add")
        s6 == t2h(s5, "xor")
        s7 == block_rule(s6, "middle_shift")
        r6 == t2hr(s7, "xor")
        r5 == d2ur(r6, 6, "wrapping_sub")
        r4 == block_rule(r5, "rotr")
        r3 == byte_rule(r4, "wrapping_sub")
        r2 == u2dr(r3, 3, "xor")
    IN  h2tr(r2, "wrapping_sub")

(***************************************************************************)
(* Padder (padder.rs): a frame is [leb128_size, size, content]; `some`     *)
(* tells a Padder value from the absence of one.                           *)
(***************************************************************************)
NoPadder == [some |-> FALSE, leb128_size |-> 0, size |-> 0, content |-> <<>>]

\* Padder::payload
payload(p) == Slice(p.content, p.leb128_size, p.leb128_size + p.size)

\* fault injected for C15: a payload_offset that forgets the length prefix
payload_offset_zero(p) == 0

\* Padder::payload_offset
payload_offset(p) == p.leb128_size

\* Padder::payload_length
payload_length(p) == p.size

\* Padder::payload_mut followed by a store of byte b at payload index i
payload_mut_store(p, i, b) ==
    [p EXCEPT !.content[p.leb128_size + i + 1] = b]

\* fault injected for C7: a recalculate_checksum that stores the CRC in every
\* checksum byte without adding the index
recalculate_checksum_flat(p) ==
    LET Store(crc, checksum_count) ==
            [p EXCEPT !.content =
                [k \in 1..Len(p.content) |->
                    IF k - 1 >= p.leb128_size + p.size
                       /\ k - 1 < p.leb128_size + p.size + checksum_count
                    THEN crc
                    ELSE p.content[k]]]
    IN  Store(CrcChecksum(payload(p)), Len(p.content) - p.size - p.leb128_size)

\* Padder::recalculate_checksum
recalculate_checksum(p) ==
    LET Store(crc, checksum_count) ==
            [p EXCEPT !.content =
                [k \in 1..Len(p.content) |->
                    IF k - 1 >= p.leb128_size + p.size
                       /\ k - 1 < p.leb128_size + p.size + checksum_count
                    THEN WrappingAdd(crc, AsU8(k - 1 - p.leb128_size - p.size))
                    ELSE p.content[k]]]
    IN  Store(CrcChecksum(payload(p)), Len(p.content) - p.size - p.leb128_size)

\* fault injected for C5: a guard whose Drop leaves the checksum as it was
PadderMutGuardDrop_forget(p) == p

\* Drop for PadderMutGuard: runs on every exit from the scope of the guard
PadderMutGuardDrop(p) == recalculate_checksum(p)

\* Padder::new_zeroed: a zero-filled buffer of padded_size(size) bytes with the
\* leb128 encoding of size written at its head, then the checksum
new_zeroed(size) ==
    LET Build(padded, written) ==
            recalculate_checksum(
                [some |-> TRUE, leb128_size |-> Len(written), size |-> size,
                 content |-> [k \in 1..padded |->
                                IF k <= Len(written) THEN written[k] ELSE 0]])
    IN  Build(padded_size(size), Leb128Write(size))

\* Padder::new: new_zeroed, then copy_from_slice through a temporary guard,
\* which is dropped at the end of the statement
PadderNew(input) ==
    LET Copy(zeroed) ==
            PadderMutGuardDrop(
                [zeroed EXCEPT !.content =
                    [k \in 1..Len(zeroed.content) |->
                        IF k > zeroed.leb128_size
                           /\ k <= zeroed.leb128_size + zeroed.size
                        THEN input[k - zeroed.leb128_size]
                        ELSE zeroed.content[k]]])
    IN  Copy(new_zeroed(Len(input)))

(***************************************************************************)
(* Results. One record shape serves every call: tag names the variant      *)
(* (Ok, the four PaddingValidationError variants, None, usize) or Panic    *)
(* for a call that panicked instead of returning.                          *)
(***************************************************************************)
NoResult ==
    [tag |-> "None", length |-> 0, payload_size |-> 0, expected |-> 0,
     actual |-> 0, offset |-> 0, number |-> 0, value |-> <<>>, text |-> <<>>,
     padder |-> NoPadder]

Panic == [NoResult EXCEPT !.tag = "Panic"]
NotAligned(len) == [NoResult EXCEPT !.tag = "NotAligned", !.length = len]
BadLengthField == [NoResult EXCEPT !.tag = "BadLengthField"]
UnexpectedPaddedLength(n, e, a) ==
    [NoResult EXCEPT !.tag = "UnexpectedPaddedLength",
                     !.payload_size = n, !.expected = e, !.actual = a]
InvalidChecksum(off) == [NoResult EXCEPT !.tag = "InvalidChecksum", !.offset = off]
OkPadder(p) == [NoResult EXCEPT !.tag = "Ok", !.padder = p]
OkBytes(bytes) == [NoResult EXCEPT !.tag = "Ok", !.value = bytes]
\* Ok(InPlaceDecodeResult { content, offset, length })
OkInPlace(content, offset, length) ==
    [NoResult EXCEPT !.tag = "Ok", !.value = content,
                     !.offset = offset, !.length = length]
Usize(n) == [NoResult EXCEPT !.tag = "usize", !.number = n]

ErrorTags == {"NotAligned", "BadLengthField", "UnexpectedPaddedLength", "InvalidChecksum"}

\* the least element of a non-empty set of naturals
Least(S) == CHOOSE x \in S : \A y \in S : x <= y

\* fault injected for C4: a checksum loop that compares the first checksum
\* byte only
ChecksumMismatches_first(content, leb, payload_size, checksum_size) ==
    LET Against(expected_checksum) ==
            {i \in 0..(checksum_size - 1) :
                /\ i = 0
                /\ content[leb + payload_size + i + 1] # expected_checksum}
    IN  Against(CrcChecksum(Slice(content, leb, leb + payload_size)))

\* the checksum loop of try_from_raw: the checksum indices that do not hold
\* expected_checksum.wrapping_add(i as u8)
ChecksumMismatches(content, leb, payload_size, checksum_size) ==
    LET Against(expected_checksum) ==
            {i \in 0..(checksum_size - 1) :
                content[leb + payload_size + i + 1]
                    # WrappingAdd(expected_checksum, AsU8(i))}
    IN  Against(CrcChecksum(Slice(content, leb, leb + payload_size)))

\* fault injected for C12: a try_from_raw that decodes the length prefix before
\* it looks at the alignment
try_from_raw_reordered(content) ==
    LET Loop(leb, payload_size, bad) ==
            IF bad # {} THEN InvalidChecksum(leb + payload_size + Least(bad))
            ELSE OkPadder([some |-> TRUE, leb128_size |-> leb,
                           size |-> payload_size, content |-> content])
        Check(len, read, expected_padded_size) ==
            IF ~read.ok THEN BadLengthField
            ELSE IF len % ALIGNMENT # 0 THEN NotAligned(len)
            ELSE IF expected_padded_size # len
                 THEN UnexpectedPaddedLength(read.value, expected_padded_size, len)
            ELSE IF len - read.value - read.position < 0 THEN Panic
            ELSE Loop(read.position, read.value,
                      ChecksumMismatches(content, read.position, read.value,
                                         len - read.value - read.position))
        Parse(len, read) == Check(len, read, padded_size(read.value))
    IN  Parse(Len(content), Leb128Read(content, 0, 0, 0))

\* Padder::try_from_raw. When payload_size + leb128_size exceeds len, line 252
\* subtracts below zero in usize: an overflow panic with overflow checks, and
\* without them the payload slice of line 253 ends past the buffer and
\* panics; both builds panic.
try_from_raw(content) ==
    LET Loop(leb, payload_size, bad) ==
            IF bad # {} THEN InvalidChecksum(leb + payload_size + Least(bad))
            ELSE OkPadder([some |-> TRUE, leb128_size |-> leb,
                           size |-> payload_size, content |-> content])
        Check(len, read, expected_padded_size) ==
            IF len % ALIGNMENT # 0 THEN NotAligned(len)
            ELSE IF ~read.ok THEN BadLengthField
            ELSE IF expected_padded_size # len
                 THEN UnexpectedPaddedLength(read.value, expected_padded_size, len)
            ELSE IF len - read.value - read.position < 0 THEN Panic
            ELSE Loop(read.position, read.value,
                      ChecksumMismatches(content, read.position, read.value,
                                         len - read.value - read.position))
        Parse(len, read) == Check(len, read, padded_size(read.value))
    IN  Parse(Len(content), Leb128Read(content, 0, 0, 0))

(***************************************************************************)
(* Mixer construction and the entry points of lib.rs.                      *)
(***************************************************************************)
NoMixer == [some |-> FALSE, content |-> <<>>]

\* fault injected for C6: a Mixer::new that takes a buffer of any length
MixerNew_unchecked(input) == [some |-> TRUE, content |-> input]

\* Mixer::new: None unless the length is a multiple of Padder::ALIGNMENT
MixerNew(input) ==
    IF Len(input) % ALIGNMENT # 0 THEN NoMixer
    ELSE [some |-> TRUE, content |-> input]

\* the URL-safe base64 alphabet (base64::prelude::BASE64_URL_SAFE)
Base64Alphabet ==
    << "A","B","C","D","E","F","G","H","I","J","K","L","M","N","O","P",
       "Q","R","S","T","U","V","W","X","Y","Z","a","b","c","d","e","f",
       "g","h","i","j","k","l","m","n","o","p","q","r","s","t","u","v",
       "w","x","y","z","0","1","2","3","4","5","6","7","8","9","-","_" >>

RECURSIVE Base64Encode(_)
\* BASE64_URL_SAFE.encode: four characters per three bytes, "=" padding for a
\* last group of one or two bytes; the text is a sequence of characters
Base64Encode(bytes) ==
    LET ch(v) == Base64Alphabet[v + 1]
    IN  IF Len(bytes) = 0 THEN <<>>
        ELSE IF Len(bytes) = 1
             THEN << ch(bytes[1] \div 4), ch((bytes[1] % 4) * 16), "=", "=" >>
        ELSE IF Len(bytes) = 2
             THEN << ch(bytes[1] \div 4),
                     ch((bytes[1] % 4) * 16 + (bytes[2] \div 16)),
                     ch((bytes[2] % 16) * 4), "=" >>
        ELSE << ch(bytes[1] \div 4),
                ch((bytes[1] % 4) * 16 + (bytes[2] \div 16)),
                ch((bytes[2] % 16) * 4 + (bytes[3] \div 64)),
                ch(bytes[3] % 64) >>
             \o Base64Encode(Slice(bytes, 3, Len(bytes)))

\* the value of a character of the alphabet
Base64Value(c) == (CHOOSE k \in 1..64 : Base64Alphabet[k] = c) - 1

RECURSIVE Base64Decode(_)
\* BASE64_URL_SAFE.decode of a text of whole unpadded groups, which is what
\* encode_to_base64 produces (every blob is a multiple of 3 bytes long)
Base64Decode(text) ==
    IF Len(text) = 0 THEN <<>>
    ELSE LET a == Base64Value(text[1])
             b == Base64Value(text[2])
             c == Base64Value(text[3])
             d == Base64Value(text[4])
         IN  << a * 4 + (b \div 16), (b % 16) * 16 + (c \div 4), (c % 4) * 64 + d >>
             \o Base64Decode(Slice(text, 4, Len(text)))

\* fault injected for C9: do_encode without the is_empty short-circuit of
\* lines 12-14, so the empty input is framed and mixed like any other
do_encode_unguarded(input) ==
    LET Mix(frame, m) ==
            IF ~m.some \/ MixPanics(m.content)
            THEN [some |-> FALSE, panicked |-> TRUE, padder |-> frame,
                  mixer |-> m, mixes |-> IF m.some THEN 1 ELSE 0]
            ELSE [some |-> TRUE, panicked |-> FALSE, padder |-> frame,
                  mixer |-> [some |-> TRUE, content |-> mix(m.content)],
                  mixes |-> 1]
        Frame(frame) == Mix(frame, [some |-> Len(frame.content) % 3 = 0,
                                    content |-> frame.content])
    IN  Frame(PadderNew(input))

\* do_encode, with what it leaves behind: the frame it built (none for the
\* empty input), the Mixer, the number of mix() calls, and whether it panicked
do_encode(input) ==
    LET Mix(frame, m) ==
            IF ~m.some \/ MixPanics(m.content)
            THEN [some |-> FALSE, panicked |-> TRUE, padder |-> frame,
                  mixer |-> m, mixes |-> IF m.some THEN 1 ELSE 0]
            ELSE [some |-> TRUE, panicked |-> FALSE, padder |-> frame,
                  mixer |-> [some |-> TRUE, content |-> mix(m.content)],
                  mixes |-> 1]
        Frame(frame) == Mix(frame, MixerNew(frame.content))
    IN  IF Len(input) = 0
        THEN [some |-> FALSE, panicked |-> FALSE, padder |-> NoPadder,
              mixer |-> NoMixer, mixes |-> 0]
        ELSE Frame(PadderNew(input))

\* do_decode: Mixer::new or NotAligned, then mix(), then try_from_raw
do_decode(place) ==
    LET Parse(mixed) ==
            [result |-> try_from_raw(mixed),
             mixer |-> [some |-> TRUE, content |-> mixed], mixes |-> 1]
        Unmix(m) ==
            IF ~m.some
            THEN [result |-> NotAligned(Len(place)), mixer |-> NoMixer, mixes |-> 0]
            ELSE IF MixPanics(m.content)
            THEN [result |-> Panic, mixer |-> m, mixes |-> 1]
            ELSE Parse(mix(m.content))
    IN  Unmix(MixerNew(place))

\* decode: Ok(p) becomes Ok(p.as_ref().into()), the payload bytes
decode(place) ==
    LET Map(d) ==
            [d EXCEPT !.result =
                IF d.result.tag = "Ok" THEN OkBytes(payload(d.result.padder))
                ELSE d.result]
    IN  Map(do_decode(place))

\* decode_in_place: Ok(p) becomes the whole content of p with the offset and
\* the length of the payload in it
decode_in_place(place) ==
    LET Map(d) ==
            [d EXCEPT !.result =
                IF d.result.tag = "Ok"
                THEN OkInPlace(d.result.padder.content,
                               payload_offset(d.result.padder),
                               payload_length(d.result.padder))
                ELSE d.result]
    IN  Map(do_decode(place))

(***************************************************************************)
(* The callers' inputs.                                                    *)
(***************************************************************************)
\* byte values the callers write: zero, one, and the two with the leb128
\* continuation bit set (0x80, 0x81)
Bytes == {0, 1, 128, 129}

\* the inputs of the unit test of lib.rs and the blob of the first
KnownVectors == { <<97>>, <<98>>, <<61, 161, 20>> }

\* byte values of the longer inputs, and those stored through a guard
LongBytes == {0, 129}

\* payloads and untrusted buffers: every sequence over Bytes up to MaxLen,
\* every longer one over LongBytes up to MaxLongLen, and the known vectors
Inputs ==
    (UNION {[1..n -> Bytes] : n \in 0..MaxLen})
    \cup (UNION {[1..n -> LongBytes] : n \in (MaxLen + 1)..MaxLongLen})
    \cup KnownVectors

\* payload sizes given to padded_size and leb128_size: every size up to
\* MaxSize, the sizes of the doc examples and the sizes around a longer prefix
Sizes == (0..MaxSize) \cup {200, 300, 16383, 16384, 65536, 2097151, 2097152}

(***************************************************************************)
(* State.                                                                  *)
(***************************************************************************)
VARIABLES
    pc,       \* the call that ended last ("start" before the first)
    api,      \* the first call the caller made
    input,    \* the byte argument of the first call
    size,     \* the usize argument of the first call
    padder,   \* the Padder the caller holds, or the one encode built
    mixer,    \* the Mixer the caller holds, or the one encode / decode built
    mixes,    \* calls of Mixer::mix made so far
    place,    \* the raw buffer handed to decode or try_from_raw
    flip,     \* the bit flipped in `place`, if one was
    result    \* what the last call returned

vars == <<pc, api, input, size, padder, mixer, mixes, place, flip, result>>

NoFlip == [done |-> FALSE, offset |-> 0, bit |-> 0]

Init ==
    /\ pc = "start"
    /\ api = "none"
    /\ input = <<>>
    /\ size = 0
    /\ padder = NoPadder
    /\ mixer = NoMixer
    /\ mixes = 0
    /\ place = <<>>
    /\ flip = NoFlip
    /\ result = NoResult

(***************************************************************************)
(* lib.rs: encode, encode_to_base64, decode, decode_from_base64.           *)
(***************************************************************************)
\* what encode / encode_to_base64 return for the outcome e of do_encode:
\* result.value is the blob, result.text its base64 text
EncodeResult(a, e) ==
    LET Blob(blob) ==
            [OkBytes(blob) EXCEPT !.text =
                IF a = "encode_to_base64" THEN Base64Encode(blob) ELSE <<>>]
    IN  IF e.panicked THEN Panic
        ELSE Blob(IF e.some THEN e.mixer.content ELSE <<>>)

\* encode(p) / encode_to_base64(p)
Encode(a, p) ==
    LET Done(e) ==
            /\ padder' = e.padder
            /\ mixer' = e.mixer
            /\ mixes' = e.mixes
            /\ result' = EncodeResult(a, e)
    IN  /\ pc = "start"
        /\ Done(do_encode(p))
        /\ pc' = a
        /\ api' = a
        /\ input' = p
        /\ UNCHANGED <<size, place, flip>>

\* the body shared by the decode actions: decode(buffer)
DecodeOf(buffer) ==
    LET Done(d) ==
            /\ mixer' = d.mixer
            /\ mixes' = mixes + d.mixes
            /\ result' = d.result
    IN  /\ place' = buffer
        /\ Done(decode(buffer))

\* decode(b) on a buffer the caller got from anywhere
DecodeInput(b) ==
    /\ pc = "start"
    /\ DecodeOf(b)
    /\ pc' = "decode"
    /\ api' = "decode"
    /\ input' = b
    /\ UNCHANGED <<size, padder, flip>>

\* decode(blob) / decode_from_base64(text) on what encode returned
DecodeEncoded ==
    /\ pc \in {"encode", "encode_to_base64"}
    /\ result.tag = "Ok"
    /\ IF pc = "encode"
       THEN DecodeOf(result.value) /\ pc' = "decode"
       ELSE DecodeOf(Base64Decode(result.text)) /\ pc' = "decode_from_base64"
    /\ UNCHANGED <<api, input, size, padder, flip>>

\* the body shared by the decode_in_place actions: decode_in_place(buffer)
DecodeInPlaceOf(buffer) ==
    LET Done(d) ==
            /\ mixer' = d.mixer
            /\ mixes' = mixes + d.mixes
            /\ result' = d.result
    IN  /\ place' = buffer
        /\ Done(decode_in_place(buffer))
        /\ pc' = "decode_in_place"

\* decode_in_place(b) on a buffer the caller got from anywhere
DecodeInPlaceInput(b) ==
    /\ pc = "start"
    /\ DecodeInPlaceOf(b)
    /\ api' = "decode_in_place"
    /\ input' = b
    /\ UNCHANGED <<size, padder, flip>>

\* decode_in_place(blob) on what encode returned
DecodeInPlaceEncoded ==
    /\ pc = "encode"
    /\ result.tag = "Ok"
    /\ DecodeInPlaceOf(result.value)
    /\ UNCHANGED <<api, input, size, padder, flip>>

(***************************************************************************)
(* mixer.rs: Mixer::new, Mixer::mix, and decode of a Mixer's content.      *)
(***************************************************************************)
MixerNewCall(b) ==
    /\ pc = "start"
    /\ mixer' = MixerNew(b)
    /\ result' = [NoResult EXCEPT !.tag = IF MixerNew(b).some THEN "Some" ELSE "None"]
    /\ pc' = "Mixer::new"
    /\ api' = "Mixer::new"
    /\ input' = b
    /\ UNCHANGED <<size, padder, mixes, place, flip>>

MixerMix ==
    /\ pc \in {"Mixer::new", "mix"}
    /\ mixer.some
    /\ result.tag # "Panic"
    /\ mixes < MaxMixes
    /\ IF MixPanics(mixer.content)
       THEN result' = Panic /\ UNCHANGED mixer
       ELSE /\ mixer' = [mixer EXCEPT !.content = mix(mixer.content)]
            /\ result' = [NoResult EXCEPT !.tag = "Unit"]
    /\ mixes' = mixes + 1
    /\ pc' = "mix"
    /\ UNCHANGED <<api, input, size, padder, place, flip>>

\* decode(mixer): the Mixer's content goes to decode through Into<Box<[u8]>>
MixerDecode ==
    /\ pc = "mix"
    /\ result.tag # "Panic"
    /\ DecodeOf(mixer.content)
    /\ pc' = "decode"
    /\ UNCHANGED <<api, input, size, padder, flip>>

\* decode_in_place(mixer.into())
MixerDecodeInPlace ==
    /\ pc = "mix"
    /\ result.tag # "Panic"
    /\ DecodeInPlaceOf(mixer.content)
    /\ UNCHANGED <<api, input, size, padder, flip>>

Next ==
    \/ \E a \in {"encode", "encode_to_base64"}, p \in Inputs : Encode(a, p)
    \/ \E b \in Inputs : DecodeInput(b)
    \/ DecodeEncoded
    \/ \E b \in Inputs : MixerNewCall(b)
    \/ MixerMix
    \/ MixerDecode
    \/ \E b \in Inputs : DecodeInPlaceInput(b)
    \/ DecodeInPlaceEncoded
    \/ MixerDecodeInPlace

Spec == Init /\ [][Next]_vars

(***************************************************************************)
(* padder.rs as its callers use it: the constructors, the mutation guard,  *)
(* the raw content and its validation, and the size functions.             *)
(***************************************************************************)
\* the pc values at which the caller holds a Padder and no guard on it
Holding == {"Padder::new", "Padder::new_zeroed", "Padder::try_from_raw",
            "drop", "drop_early"}

\* the pc values at which a PadderMutGuard is live
Guarded == {"as_mut", "deref_mut"}

PadderNewCall(p) ==
    /\ pc = "start"
    /\ padder' = PadderNew(p)
    /\ result' = [NoResult EXCEPT !.tag = "Padder"]
    /\ pc' = "Padder::new"
    /\ api' = "Padder::new"
    /\ input' = p
    /\ UNCHANGED <<size, mixer, mixes, place, flip>>

PadderNewZeroed(n) ==
    /\ pc = "start"
    /\ padder' = new_zeroed(n)
    /\ result' = [NoResult EXCEPT !.tag = "Padder"]
    /\ pc' = "Padder::new_zeroed"
    /\ api' = "Padder::new_zeroed"
    /\ size' = n
    /\ UNCHANGED <<input, mixer, mixes, place, flip>>

\* the body shared by the two try_from_raw actions
TryFromRawOf(raw) ==
    LET Done(r) ==
            /\ result' = r
            /\ padder' = r.padder
    IN  /\ place' = raw
        /\ Done(try_from_raw(raw))

\* Padder::try_from_raw(b) on a buffer the caller got from anywhere
TryFromRawInput(b) ==
    /\ pc = "start"
    /\ TryFromRawOf(b)
    /\ pc' = "Padder::try_from_raw"
    /\ api' = "Padder::try_from_raw"
    /\ input' = b
    /\ UNCHANGED <<size, mixer, mixes, flip>>

\* Padder::as_mut: the guard borrows the Padder
AsMut ==
    /\ pc \in Holding
    /\ padder.some
    /\ padder.size <= MaxMutLen
    /\ pc' = "as_mut"
    /\ UNCHANGED <<api, input, size, padder, mixer, mixes, place, flip, result>>

\* a store through DerefMut into payload byte i
GuardWrite(i, b) ==
    /\ pc \in Guarded
    /\ i < padder.size
    /\ padder' = payload_mut_store(padder, i, b)
    /\ pc' = "deref_mut"
    /\ UNCHANGED <<api, input, size, mixer, mixes, place, flip, result>>

\* the scope of the guard ends, at its end ("drop") or by an early return or
\* an unwinding panic ("drop_early"): Drop::drop runs on each
ScopeExit(how) ==
    /\ pc \in Guarded
    /\ padder' = PadderMutGuardDrop(padder)
    /\ result' = [NoResult EXCEPT !.tag = "Unit"]
    /\ pc' = how
    /\ UNCHANGED <<api, input, size, mixer, mixes, place, flip>>

\* Into<Box<[u8]>> for Padder: the Padder is consumed, its content is the buffer
PadderInto ==
    /\ pc \in Holding
    /\ padder.some
    /\ Len(padder.content) <= MaxFlipLen
    /\ place' = padder.content
    /\ padder' = NoPadder
    /\ pc' = "into"
    /\ UNCHANGED <<api, input, size, mixer, mixes, flip, result>>

\* one bit of a raw frame that came straight from a constructor changes
\* (corruption in storage or transport); nothing recomputes the checksum
FlipBit(off, bit) ==
    /\ pc = "into"
    /\ result.tag = "Padder"
    /\ ~flip.done
    /\ off < Len(place)
    /\ place' = [place EXCEPT ![off + 1] = Xor8(@, Pow2(bit))]
    /\ flip' = [done |-> TRUE, offset |-> off, bit |-> bit]
    /\ pc' = "flip"
    /\ UNCHANGED <<api, input, size, padder, mixer, mixes, result>>

\* Padder::try_from_raw on the raw frame, the last call of the caller
TryFromRawPlace ==
    /\ pc \in {"into", "flip"}
    /\ TryFromRawOf(place)
    /\ pc' = "revalidated"
    /\ UNCHANGED <<api, input, size, mixer, mixes, flip>>

PaddedSizeCall(n) ==
    /\ pc = "start"
    /\ result' = Usize(padded_size(n))
    /\ pc' = "padded_size"
    /\ api' = "padded_size"
    /\ size' = n
    /\ UNCHANGED <<input, padder, mixer, mixes, place, flip>>

Leb128SizeCall(n) ==
    /\ pc = "start"
    /\ result' = Usize(leb128_size(n))
    /\ pc' = "leb128_size"
    /\ api' = "leb128_size"
    /\ size' = n
    /\ UNCHANGED <<input, padder, mixer, mixes, place, flip>>

NextPadder ==
    \/ \E p \in Inputs : PadderNewCall(p)
    \/ \E n \in 0..MaxSize : PadderNewZeroed(n)
    \/ \E b \in Inputs : TryFromRawInput(b)
    \/ AsMut
    \/ \E i \in 0..(MaxMutLen - 1), b \in LongBytes : GuardWrite(i, b)
    \/ \E how \in {"drop", "drop_early"} : ScopeExit(how)
    \/ PadderInto
    \/ \E off \in 0..(MaxFlipLen - 1), bit \in 0..7 : FlipBit(off, bit)
    \/ TryFromRawPlace
    \/ \E n \in Sizes : PaddedSizeCall(n)
    \/ \E n \in Sizes : Leb128SizeCall(n)

SpecPadder == Init /\ [][NextPadder]_vars

(***************************************************************************)
(* Properties of lib.rs and mixer.rs, checked under Spec.                  *)
(***************************************************************************)
\* C1: round trip. Once encode (or encode_to_base64) has returned for a
\* payload p and decode (or decode_from_base64) has been applied to what it
\* returned, the result is Ok(p); for the empty payload this is decode of the
\* empty blob returning Ok of the empty payload.
C1_RoundTrip ==
    (api \in {"encode", "encode_to_base64"}
     /\ pc \in {"decode", "decode_from_base64"})
        => result = OkBytes(input)

\* the empty payload was encoded to the empty blob and decode of it panicked
C1_EmptyRoundTripPanics ==
    /\ api = "encode"
    /\ pc = "decode"
    /\ input = <<>>
    /\ place = <<>>
    /\ result = Panic

\* C2: mix involution. For every buffer Mixer::new accepts, each call of
\* Mixer::mix returns without panicking and leaves the length as it was, and
\* after an even number of calls the content is the buffer again.
C2_MixInvolution ==
    (api = "Mixer::new" /\ pc = "mix")
        => /\ result.tag # "Panic"
           /\ Len(mixer.content) = Len(input)
           /\ (mixes % 2 = 0 => mixer.content = input)

\* Mixer::new accepted the zero-length buffer and the first mix panicked
C2_EmptyMixPanics ==
    /\ api = "Mixer::new"
    /\ pc = "mix"
    /\ input = <<>>
    /\ mixer.some
    /\ mixes = 1
    /\ result = Panic

\* C3: decode is total. Whatever buffer decode is given, it returns Ok or one
\* of NotAligned, BadLengthField, UnexpectedPaddedLength, InvalidChecksum; it
\* never panics.
C3_DecodeTotal ==
    pc \in {"decode", "decode_from_base64"}
        => result.tag \in ({"Ok"} \cup ErrorTags)

\* decode of a non-empty aligned buffer panicked: its unmixed content is a
\* length prefix that fills the buffer (0x81 0x80 0x00, a two-group encoding
\* of 1 read in three bytes), so that len - payload_size - leb128_size is below 0
C3_PrefixFillsBufferPanics ==
    /\ pc = "decode"
    /\ Len(place) = ALIGNMENT
    /\ mixer.some
    /\ mixer.content = <<129, 128, 0>>
    /\ result = Panic

\* C6: alignment rejection. decode of a buffer whose length is not a multiple
\* of 3 returns NotAligned with that length, and no Mixer was built and no
\* mix() ran for it, so that nothing was mixed or parsed.
C6_AlignmentRejection ==
    (pc = "decode" /\ Len(place) % 3 # 0)
        => /\ result = NotAligned(Len(place))
           /\ ~mixer.some
           /\ mixes = 0

\* decode rejected a buffer of four bytes
C6_RejectedFourBytes ==
    /\ pc = "decode"
    /\ Len(place) = 4
    /\ result.tag = "NotAligned"
    /\ result.length = 4

\* C9: encode is total. encode and encode_to_base64 return for every payload;
\* for the empty payload the blob is empty and no frame, no Mixer and no mix()
\* came about; for a non-empty payload p the blob is mix of the content of
\* Padder::new(p), its length is padded_size(len(p)), a multiple of 3.
C9_EncodeTotal ==
    pc \in {"encode", "encode_to_base64"}
        => /\ result.tag = "Ok"
           /\ input = <<>>
                => /\ result.value = <<>>
                   /\ padder = NoPadder
                   /\ mixer = NoMixer
                   /\ mixes = 0
           /\ input # <<>>
                => /\ padder = PadderNew(input)
                   /\ mixes = 1
                   /\ result.value = mix(padder.content)
                   /\ Len(result.value) = padded_size(Len(input))
                   /\ Len(result.value) % 3 = 0

\* encode returned a six-byte blob for a two-byte payload, and the empty
\* payload is among the inputs of the same action
C9_EncodedTwoBytes ==
    /\ pc = "encode"
    /\ Len(input) = 2
    /\ result.tag = "Ok"
    /\ Len(result.value) = 6

\* C10: known answers. [0x61] encodes to the blob 3D A1 14, the text "PaEU",
\* and decode of that blob or text returns [0x61]; [0x62] encodes to the blob
\* A4 9C 5D, the text "pJxd".
C10_KnownAnswers ==
    /\ (pc \in {"encode", "encode_to_base64"} /\ input = <<97>>)
            => result.value = <<61, 161, 20>>
    /\ (pc = "encode_to_base64" /\ input = <<97>>)
            => result.text = << "P", "a", "E", "U" >>
    /\ (pc \in {"encode", "encode_to_base64"} /\ input = <<98>>)
            => result.value = <<164, 156, 93>>
    /\ (pc = "encode_to_base64" /\ input = <<98>>)
            => result.text = << "p", "J", "x", "d" >>
    /\ (pc = "decode" /\ place = <<61, 161, 20>>)
            => result = OkBytes(<<97>>)
    /\ (pc = "decode_from_base64" /\ api = "encode_to_base64" /\ input = <<97>>)
            => /\ place = <<61, 161, 20>>
               /\ result = OkBytes(<<97>>)

\* "PaEU" was produced for [0x61] and decoded back to it
C10_DecodedPaEU ==
    /\ pc = "decode_from_base64"
    /\ input = <<97>>
    /\ place = <<61, 161, 20>>
    /\ result.value = <<97>>

(***************************************************************************)
(* Properties of padder.rs, checked under SpecPadder.                      *)
(***************************************************************************)
\* C4: checksum sensitivity. Take the frame Padder::new built for a payload
\* of n bytes (or Padder::new_zeroed for n zero bytes), flip one bit at an
\* offset of L(n) or more, that is in the payload or the checksum region, and
\* hand the bytes to try_from_raw: it returns InvalidChecksum or
\* UnexpectedPaddedLength, never Ok.
C4_ChecksumSensitivity ==
    (/\ api \in {"Padder::new", "Padder::new_zeroed"}
     /\ pc = "revalidated"
     /\ flip.done
     /\ flip.offset >= leb128_size(IF api = "Padder::new" THEN Len(input) ELSE size))
        => result.tag \in {"InvalidChecksum", "UnexpectedPaddedLength"}

\* a bit of the last checksum byte of a six-byte frame was flipped and
\* try_from_raw answered InvalidChecksum at that offset
C4_FlippedLastChecksumByte ==
    /\ api = "Padder::new"
    /\ pc = "revalidated"
    /\ flip.done
    /\ Len(input) = 3
    /\ flip.offset = 5
    /\ result = InvalidChecksum(5)

\* C5: scoped mutation. Whenever the caller holds a Padder (built or parsed,
\* after any number of guard scopes left at their end or early) and no guard
\* is live, every checksum byte i is CRC8(payload) + i and try_from_raw of the
\* content returns this very frame; and at every moment, guard live or not,
\* the length prefix, the payload length and the length of the frame are
\* those of the frame as it was first built or parsed.
C5_ScopedMutationConsistent ==
    /\ (pc \in Holding /\ padder.some)
        => /\ \A i \in 0..(Len(padder.content) - padder.leb128_size - padder.size - 1) :
                padder.content[padder.leb128_size + padder.size + i + 1]
                    = WrappingAdd(CrcChecksum(payload(padder)), AsU8(i))
           /\ try_from_raw(padder.content) = OkPadder(padder)
    /\ (pc \in (Holding \cup Guarded) /\ padder.some)
        => LET original ==
                   IF api = "Padder::new" THEN PadderNew(input)
                   ELSE IF api = "Padder::new_zeroed" THEN new_zeroed(size)
                   ELSE try_from_raw(input).padder
           IN  /\ Len(padder.content) = Len(original.content)
               /\ padder.leb128_size = original.leb128_size
               /\ padder.size = original.size
               /\ Slice(padder.content, 0, padder.leb128_size)
                    = Slice(original.content, 0, original.leb128_size)

\* a scope that stored into the payload of a built frame was left early, and
\* the payload is no longer the one the frame was built from
C5_LeftEarlyAfterWrite ==
    /\ api = "Padder::new"
    /\ pc = "drop_early"
    /\ padder.some
    /\ Len(input) = 2
    /\ payload(padder) # input

\* C7 as stated: the frame built for n payload bytes has a length prefix of
\* exactly L(n) bytes (L(0) = 0), which is payload_offset, then the n payload
\* bytes, then exactly C(n) = 1 + ((-(L(n)+n+1)) mod 3) checksum bytes, byte i
\* of them being CRC8(payload) + i.
C7_FrameLayout ==
    pc \in {"Padder::new", "Padder::new_zeroed"}
        => LET n == IF api = "Padder::new" THEN Len(input) ELSE size
               L == leb128_size(n)
               C == 1 + RemEuclid(-(L + n + 1), 3)
           IN  /\ padder.leb128_size = L
               /\ padder.size = n
               /\ Len(padder.content) = L + n + C
               /\ payload(padder) = IF api = "Padder::new" THEN input ELSE Zeroes(n)
               /\ \A i \in 0..(C - 1) :
                    padder.content[L + n + i + 1]
                        = WrappingAdd(CrcChecksum(payload(padder)), AsU8(i))

\* C7 amended: the frame built for n payload bytes has a length prefix of
\* exactly max(1, L(n)) bytes, the LEB128 encoding of n (one byte 0x00 for
\* n = 0), which is payload_offset, then the n payload bytes, then exactly
\* padded_size(n) - max(1, L(n)) - n checksum bytes, which is C(n) for n > 0
\* and 2 for n = 0, byte i of them being CRC8(payload) + i.
C7_FrameLayoutAmended ==
    pc \in {"Padder::new", "Padder::new_zeroed"}
        => LET n == IF api = "Padder::new" THEN Len(input) ELSE size
               L == IF n = 0 THEN 1 ELSE leb128_size(n)
               C == IF n = 0 THEN 2 ELSE 1 + RemEuclid(-(leb128_size(n) + n + 1), 3)
           IN  /\ padder.leb128_size = L
               /\ Slice(padder.content, 0, L) = Leb128Write(n)
               /\ padder.size = n
               /\ Len(padder.content) = L + n + C
               /\ Len(padder.content) = padded_size(n)
               /\ payload(padder) = IF api = "Padder::new" THEN input ELSE Zeroes(n)
               /\ \A i \in 0..(C - 1) :
                    padder.content[L + n + i + 1]
                        = WrappingAdd(CrcChecksum(payload(padder)), AsU8(i))

\* the frame of the empty payload: the prefix byte 0x00 and two checksum bytes
C7_EmptyFrameHasPrefixByte ==
    /\ pc = "Padder::new_zeroed"
    /\ size = 0
    /\ padder.leb128_size = 1
    /\ padder.content = <<0, 0, 1>>

\* C8: padded-size formula. padded_size(n) is a multiple of 3 and at least
\* n + 2; padded_size(0) = 3, padded_size(200) = 204, padded_size(300) = 303;
\* leb128_size(300) = 2 and leb128_size(65536) = 3.
C8_PaddedSizeFormula ==
    /\ pc = "padded_size"
        => /\ result.tag = "usize"
           /\ result.number % 3 = 0
           /\ result.number >= size + 2
           /\ (size = 0 => result.number = 3)
           /\ (size = 200 => result.number = 204)
           /\ (size = 300 => result.number = 303)
    /\ pc = "leb128_size"
        => /\ (size = 300 => result.number = 2)
           /\ (size = 65536 => result.number = 3)

\* padded_size(300) returned 303
C8_PaddedSizeOf300 ==
    /\ pc = "padded_size"
    /\ size = 300
    /\ result.number = 303

\* C11: the payload determines the frame. A Padder the caller holds, built or
\* accepted by try_from_raw, has the raw content, the payload offset and the
\* payload length of the Padder that Padder::new builds from the same payload,
\* so that any two Padders with equal payloads are byte-identical.
C11_PayloadDeterminesFrame ==
    (pc \in Holding /\ padder.some)
        => padder = PadderNew(payload(padder))

\* try_from_raw accepted 80 00 00, a two-byte encoding of the length 0: its
\* payload is empty like that of Padder::new([]), whose content is 00 00 01
C11_AcceptedOverlongPrefix ==
    /\ pc = "Padder::try_from_raw"
    /\ place = <<128, 0, 0>>
    /\ result.tag = "Ok"
    /\ padder.content = <<128, 0, 0>>
    /\ payload(padder) = <<>>
    /\ PadderNew(<<>>).content = <<0, 0, 1>>

\* C12: the order of the checks of try_from_raw. A length that is not a
\* multiple of 3 gives NotAligned with that length, whatever else is wrong;
\* otherwise a length prefix that does not end inside the buffer gives
\* BadLengthField; otherwise padded_size(n) # len gives UnexpectedPaddedLength
\* with n, padded_size(n) and len; otherwise a mismatching checksum byte gives
\* InvalidChecksum with the absolute offset of the lowest mismatching one.
C12_CheckOrder ==
    pc \in {"Padder::try_from_raw", "revalidated"}
        => LET len == Len(place)
               read == Leb128Read(place, 0, 0, 0)
               n == read.value
               L == read.position
               Mismatch(i) ==
                   place[L + n + i + 1]
                       # WrappingAdd(CrcChecksum(Slice(place, L, L + n)), AsU8(i))
               aligned == len % 3 = 0
               sized == aligned /\ read.ok /\ padded_size(n) = len
           IN  /\ ~aligned => result = NotAligned(len)
               /\ (aligned /\ ~read.ok) => result = BadLengthField
               /\ (aligned /\ read.ok /\ padded_size(n) # len)
                    => result = UnexpectedPaddedLength(n, padded_size(n), len)
               /\ (sized /\ L + n <= len)
                    => \A i \in 0..(len - L - n - 1) :
                          (Mismatch(i) /\ \A j \in 0..(i - 1) : ~Mismatch(j))
                              => result = InvalidChecksum(L + n + i)
               /\ result.tag = "InvalidChecksum"
                    => /\ sized
                       /\ result.offset >= L + n
                       /\ result.offset < len
                       /\ Mismatch(result.offset - L - n)

\* 00 01 00 has two wrong checksum bytes (offsets 1 and 2) and the lower
\* offset was reported
C12_ReportedLowestOffset ==
    /\ pc = "Padder::try_from_raw"
    /\ place = <<0, 1, 0>>
    /\ result = InvalidChecksum(1)

\* C13: every accepted buffer was integrity-checked. When try_from_raw
\* returns Ok, the prefix size L and the payload size n it records satisfy
\* L + n < len, the checksum region has 1 to 3 bytes, and byte i of it is
\* CRC8(payload region) + i.
C13_AcceptedWasChecked ==
    (pc \in {"Padder::try_from_raw", "revalidated"} /\ result.tag = "Ok")
        => LET L == result.padder.leb128_size
               n == result.padder.size
               len == Len(place)
           IN  /\ L + n < len
               /\ len - L - n \in 1..3
               /\ \A i \in 0..(len - L - n - 1) :
                    place[L + n + i + 1]
                        = WrappingAdd(CrcChecksum(Slice(place, L, L + n)), AsU8(i))

\* try_from_raw accepted 81 00 81: the two-byte prefix encodes the length 1,
\* the payload is the last byte and no checksum byte is left to compare
C13_AcceptedWithoutChecksum ==
    /\ pc = "Padder::try_from_raw"
    /\ place = <<129, 0, 129>>
    /\ result.tag = "Ok"
    /\ result.padder.leb128_size = 2
    /\ result.padder.size = 1
    /\ payload(result.padder) = <<129>>

\* C14 as stated: a payload length n has C(n) = 3 exactly when
\* L(n) + n + 1 = 2 (mod 3); for a payload of such a length the frame built
\* has a 3-byte checksum region and decode(encode(p)) is Ok(p).
C14_MaxChecksumWidth ==
    api \in {"encode", "encode_to_base64"}
        => LET n == Len(input)
               L == leb128_size(n)
               C == 1 + RemEuclid(-(L + n + 1), 3)
               frame == PadderNew(input)
               region == Len(frame.content) - frame.leb128_size - frame.size
               triggers == (L + n + 1) % 3 = 2
           IN  /\ (C = 3) <=> triggers
               /\ triggers => region = 3
               /\ (triggers /\ pc \in {"decode", "decode_from_base64"})
                    => result = OkBytes(input)

\* C14 amended: a payload length n > 0 has C(n) = 3 exactly when
\* L(n) + n + 1 = 1 (mod 3); the frame built for n payload bytes has a 3-byte
\* checksum region for exactly those lengths (n = 0 gives 2 checksum bytes),
\* it is the frame encode built, and decode(encode(p)) is Ok(p) for every
\* payload of such a length.
C14_MaxChecksumWidthAmended ==
    api \in {"encode", "encode_to_base64"}
        => LET n == Len(input)
               L == leb128_size(n)
               C == 1 + RemEuclid(-(L + n + 1), 3)
               frame == PadderNew(input)
               region == Len(frame.content) - frame.leb128_size - frame.size
               widest == n > 0 /\ (L + n + 1) % 3 = 1
           IN  /\ n > 0 => ((C = 3) <=> widest)
               /\ (region = 3) <=> widest
               /\ widest => padder = frame
               /\ (widest /\ pc \in {"decode", "decode_from_base64"})
                    => result = OkBytes(input)

\* a five-byte payload, whose nine-byte frame ends in three checksum bytes,
\* was encoded and decoded back
C14_RoundTripOfFiveBytes ==
    /\ api = "encode"
    /\ pc = "decode"
    /\ Len(input) = 5
    /\ Len(padder.content) - padder.leb128_size - padder.size = 3
    /\ Len(place) = 9
    /\ result = OkBytes(input)

\* C15: zero-copy decode agrees with decode. For the buffer decode_in_place
\* was given: when decode of it does not return Ok, decode_in_place ended the
\* same way with the same error; when decode returns Ok(p), decode_in_place
\* returned Ok with content = mix of the buffer, of the buffer's length,
\* offset + length <= len(content) and content[offset .. offset+length] = p.
C15_InPlaceAgreesWithDecode ==
    pc = "decode_in_place"
        => LET d == decode(place).result
           IN  /\ d.tag # "Ok" => result = d
               /\ d.tag = "Ok"
                    => /\ result.tag = "Ok"
                       /\ result.value = mix(place)
                       /\ Len(result.value) = Len(place)
                       /\ result.offset + result.length <= Len(result.value)
                       /\ Slice(result.value, result.offset,
                                result.offset + result.length) = d.value

\* decode_in_place of the blob of a two-byte payload returned the six-byte
\* frame with the payload at offset 1
C15_InPlaceOfEncodedTwoBytes ==
    /\ api = "encode"
    /\ pc = "decode_in_place"
    /\ Len(input) = 2
    /\ result.tag = "Ok"
    /\ Len(result.value) = 6
    /\ result.offset = 1
    /\ result.length = 2
    /\ Slice(result.value, 1, 3) = input

====
